---------------------------- MODULE Spec2Model ----------------------------
(***************************************************************************)
(* SysManual: the identifier/name generator used when categories and       *)
(* entries are added or duplicated (sysmanual_core.py, SysManualCore), the *)
(* editor operations that call it (sysmanual_editor.py) and the token      *)
(* matcher of the search engine (sysmanual_core.py, SysManualSearch).      *)
(*                                                                         *)
(* A Python str is modelled as a sequence of one-character strings.        *)
(***************************************************************************)
EXTENDS Integers, Sequences, FiniteSets, TLC

VARIABLES
    \* --- one call of SysManualCore.get_unique_name_and_id, step by step
    pc,             \* "entry" | "loop" | "done" | "off"
    call,           \* 1: first call, 2: the call on the first call's result
    original_name,  \* parameter
    original_id,    \* parameter
    existing_ids,   \* parameter (only membership is ever read)
    base_name,      \* local, line 117
    base_id,        \* local, line 121
    i,              \* local, the counter of lines 127-132
    ret,            \* the returned (name, id) pair

    \* --- the editor's document: SysManualGUIEditor.current_sysmanual['categories']
    current_sysmanual,
    ops,                \* the number of editor operations performed so far

    \* --- one call of SysManualCore.process_duplicated_category
    category_data,      \* parameter
    existing_cat_ids,   \* parameter
    all_entry_ids,      \* parameter
    new_category,       \* the returned copy

    \* --- one call of SysManualSearch.best_match_score_for_token
    token,              \* parameter
    text,               \* parameter
    score,              \* the returned score, in units of 1/Scale

    \* --- one call of SysManualSearch.score_entry
    entry_in,           \* parameter `entry`
    tokens,             \* parameter
    normalized,         \* the returned score, the fraction raw / divisor of a unit

    \* --- one call of SysManualSearch.search_entries_in_category
    heap,               \* the entry objects: heap[r] is the dict behind reference r
    entries_in,         \* parameter `entries`: a list of references
    query,              \* parameter
    min_score,          \* parameter, a fraction like `normalized`
    result,             \* the returned list of references

    \* --- one run of run_advanced_search (SysManual.py)
    sysmanual,          \* the current document, if one is loaded
    shown,              \* the popup: the header and entry widgets, group by group

    \* --- one run of display_entries (SysManual.py)
    current_category,   \* the id of the selected category, or empty

    \* --- the framework and the editor window (sysmanual_editor.py)
    sysmanuals,         \* framework.sysmanuals: sysmanual id -> reference to a document dict
    objects,            \* the document dicts: objects[r] is [id, categories], where
                        \*   categories is a reference to a list
    lists,              \* the `categories` lists: lists[r] is the list behind reference r
    editing             \* the reference the editor holds in current_sysmanual, 0 when
                        \*   its document is not one of `objects`

vars == <<pc, call, original_name, original_id, existing_ids, base_name,
          base_id, i, ret, current_sysmanual, ops, category_data,
          existing_cat_ids, all_entry_ids, new_category, token, text, score,
          entry_in, tokens, normalized, heap, entries_in, query, min_score, result,
          sysmanual, shown, current_category, sysmanuals, objects, lists, editing>>

dupVars == <<category_data, existing_cat_ids, all_entry_ids, new_category>>

frameVars == <<sysmanuals, objects, lists, editing>>

docVars == <<current_sysmanual, ops, frameVars>>

matchVars == <<token, text, score>>

scoreVars == <<entry_in, tokens, normalized>>

searchVars == <<heap, entries_in, query, min_score, result, sysmanual, shown,
                current_category>>

genVars == <<pc, call, original_name, original_id, existing_ids, base_name,
             base_id, i, ret>>

-----------------------------------------------------------------------------
(* Bounds of the model *)

MaxIdLen == 3       \* ids given to the generator have at most this many characters
MaxCounter == 2     \* existing_ids may hold the candidates base_1 .. base_MaxCounter

-----------------------------------------------------------------------------
(* Strings *)

Digits == <<"0", "1", "2", "3", "4", "5", "6", "7", "8", "9">>

DigitChars == {Digits[k] : k \in 1..10}

\* \d of the patterns of lines 116 and 120
IsDigit(c) == c \in DigitChars

\* str.strip(): whitespace removed at both ends
IsSpace(c) == c = " "

RECURSIVE lstrip(_)
lstrip(s) == IF s # <<>> /\ IsSpace(Head(s)) THEN lstrip(Tail(s)) ELSE s

RECURSIVE rstrip(_)
rstrip(s) ==
    IF s # <<>> /\ IsSpace(s[Len(s)]) THEN rstrip(SubSeq(s, 1, Len(s) - 1)) ELSE s

strip(s) == rstrip(lstrip(s))

\* f"{current_count}": the decimal digits of a natural number
RECURSIVE Dec(_)
Dec(n) == IF n < 10 THEN <<Digits[n + 1]>> ELSE Dec(n \div 10) \o <<Digits[(n % 10) + 1]>>

\* the length of the longest run of digits that ends at position `last`
RECURSIVE DigitRun(_, _)
DigitRun(s, last) ==
    IF last >= 1 /\ IsDigit(s[last]) THEN 1 + DigitRun(s, last - 1) ELSE 0


-----------------------------------------------------------------------------
(* SysManualCore.get_unique_name_and_id, sysmanual_core.py lines 106-132 *)

\* lines 109-112 with the name one counter ahead of the id
find_next_name_id_skewed(b_name, b_id, current_count) ==
    [name |-> b_name \o <<" ", "(">> \o Dec(current_count + 1) \o <<")">>,
     id   |-> b_id \o <<"_">> \o Dec(current_count)]

\* lines 109-112: the candidate for a counter value
find_next_name_id(b_name, b_id, current_count) ==
    [name |-> b_name \o <<" ", "(">> \o Dec(current_count) \o <<")">>,
     id   |-> b_id \o <<"_">> \o Dec(current_count)]

\* line 116: re.match(r"^(.*) \(\d+\)$", original_name) matches
match_name(s) ==
    LET n == Len(s)
        d == DigitRun(s, n - 1)
    IN  /\ n >= 4
        /\ s[n] = ")"
        /\ d >= 1
        /\ n - 2 - d >= 1
        /\ s[n - 1 - d] = "("
        /\ s[n - 2 - d] = " "

\* lines 116-117 without the suffix pattern: the name is only stripped of blanks
base_name_unstripped(s) == strip(s)

\* lines 116-117: the name without a trailing " (N)", stripped
base_name_of(s) ==
    IF match_name(s)
    THEN strip(SubSeq(s, 1, Len(s) - 3 - DigitRun(s, Len(s) - 1)))
    ELSE strip(s)

\* line 120: re.match(r"^(.*)_\d+$", original_id) matches
match_id(s) ==
    LET n == Len(s)
        d == DigitRun(s, n)
    IN  /\ d >= 1
        /\ n - d >= 1
        /\ s[n - d] = "_"

\* lines 120-121 without the suffix pattern: the id is only stripped of blanks
base_id_unstripped(s) == strip(s)

\* lines 120-121: the id without a trailing "_N", stripped
base_id_of(s) ==
    IF match_id(s)
    THEN strip(SubSeq(s, 1, Len(s) - 1 - DigitRun(s, Len(s))))
    ELSE strip(s)

\* line 124 tests the base id, as its comment says, instead of the original id
needs_counter_base(o_id, b_id, ids) == b_id \in ids

\* line 124: the counter loop is entered when the ORIGINAL id is in use
needs_counter(o_id, b_id, ids) == o_id \in ids

\* line 130 with the membership test inverted away: any candidate is taken
candidate_free_always(new_id, ids) == TRUE

\* line 130: the candidate is returned when its id is not in use
candidate_free(new_id, ids) == new_id \notin ids

\* line 132 without the increment
next_count_stuck(count) == count

\* line 132: i += 1
next_count(count) == count + 1

\* lines 127-132 as a whole: the first candidate, from `count` on, that is free
RECURSIVE counter_loop(_, _, _, _)
counter_loop(b_name, b_id, ids, count) ==
    LET c == find_next_name_id(b_name, b_id, count)
    IN  IF candidate_free(c.id, ids) THEN c
        ELSE counter_loop(b_name, b_id, ids, next_count(count))

\* lines 106-132 as a whole
get_unique_name_and_id(o_name, o_id, ids) ==
    LET b_name == base_name_of(o_name)
        b_id   == base_id_of(o_id)
    IN  IF ~needs_counter(o_id, b_id, ids)
        THEN [name |-> b_name, id |-> b_id]
        ELSE counter_loop(b_name, b_id, ids, 1)

-----------------------------------------------------------------------------
(* The inputs given to the generator *)

IdChars == {"a", "_", "1", " "}

\* every id of at most MaxIdLen characters over IdChars
Ids == UNION {[1..n -> IdChars] : n \in 0..MaxIdLen}

\* names with and without a trailing " (N)", with inner and outer blanks
NamePool ==
    { <<"a">>,
      <<" ", "a", " ">>,
      <<"a", " ", "(", "1", ")">>,
      <<"a", " ", " ", "(", "2", "0", ")">>,
      <<"a", " ", "(", "1", ")", " ", "(", "2", ")">>,
      <<"a", "(", "1", ")">>,
      <<"a", " ", "(", ")">>,
      <<" ", "(", "7", ")">> }

\* an id that no candidate of the ids above can equal
OtherId == <<"z">>

\* The code reads existing_ids only through `original_id in` (line 124) and
\* `new_id in` (line 130): the sets tried hold any of the original id, its
\* base, the first MaxCounter candidates and one unrelated id.
NearIds(o_id) ==
    {o_id, base_id_of(o_id), OtherId}
        \cup {find_next_name_id(<<>>, base_id_of(o_id), k).id : k \in 1..MaxCounter}

\* the scenario of the spec's section 8: entry {id: "e1", name: "ping"}
PingName == <<"p", "i", "n", "g">>
E1 == <<"e", "1">>
E2 == <<"e", "2">>

E1_1 == <<"e", "1", "_", "1">>
Ping_1 == PingName \o <<"_", "1">>
Ping(k) == PingName \o <<" ", "(">> \o Dec(k) \o <<")">>

NoPair == [name |-> <<>>, id |-> <<>>]
NoCategory == [id |-> <<>>, name |-> <<>>, entries |-> <<>>]
NoMatchCall == token = <<>> /\ text = <<>> /\ score = 0
NoEntry == [name |-> <<>>]
NoScore == [raw |-> 0, divisor |-> 1]
NoSysmanual == [loaded |-> FALSE, categories |-> <<>>]
NoScoreCall == entry_in = NoEntry /\ tokens = <<>> /\ normalized = NoScore
NoFramework == sysmanuals = <<>> /\ objects = <<>> /\ lists = <<>> /\ editing = 0

NoSearchCall ==
    /\ heap = <<>>
    /\ entries_in = <<>>
    /\ query = <<>>
    /\ min_score = NoScore
    /\ result = <<>>
    /\ sysmanual = NoSysmanual
    /\ shown = <<>>
    /\ current_category = <<>>

-----------------------------------------------------------------------------
(* One call of get_unique_name_and_id, statement by statement, and a second *)
(* call on its result against the grown id set                             *)

GenInit ==
    /\ pc = "entry"
    /\ call = 1
    /\ \/ /\ original_name \in NamePool
          /\ original_id \in Ids
          /\ existing_ids \in SUBSET NearIds(original_id)
       \/ /\ original_name = PingName
          /\ original_id = E1
          /\ existing_ids = {E1, E2}
       \/ /\ original_name = Ping(1)
          /\ original_id = Ping_1
          /\ existing_ids = {E1, E2, Ping_1}
    /\ base_name = <<>>
    /\ base_id = <<>>
    /\ i = 0
    /\ ret = NoPair
    /\ current_sysmanual = <<>>
    /\ ops = 0
    /\ NoFramework
    /\ category_data = NoCategory
    /\ existing_cat_ids = {}
    /\ all_entry_ids = {}
    /\ new_category = NoCategory
    /\ NoMatchCall
    /\ NoScoreCall
    /\ NoSearchCall

\* lines 114-125: strip the suffixes; return the base pair or enter the loop
GenEntry ==
    /\ pc = "entry"
    /\ base_name' = base_name_of(original_name)
    /\ base_id' = base_id_of(original_id)
    /\ IF ~needs_counter(original_id, base_id', existing_ids)
       THEN /\ ret' = [name |-> base_name', id |-> base_id']
            /\ pc' = "done"
            /\ i' = i
       ELSE /\ i' = 1
            /\ pc' = "loop"
            /\ ret' = ret
    /\ UNCHANGED <<call, original_name, original_id, existing_ids, docVars>>
    /\ UNCHANGED <<dupVars, matchVars, scoreVars, searchVars>>

\* lines 128-132: one iteration of `while True`
GenLoop ==
    /\ pc = "loop"
    /\ LET c == find_next_name_id(base_name, base_id, i)
       IN  IF candidate_free(c.id, existing_ids)
           THEN /\ ret' = c
                /\ pc' = "done"
                /\ i' = i
           ELSE /\ i' = next_count(i)
                /\ pc' = "loop"
                /\ ret' = ret
    /\ UNCHANGED <<call, original_name, original_id, existing_ids, base_name,
                   base_id, docVars>>
    /\ UNCHANGED <<dupVars, matchVars, scoreVars, searchVars>>

\* The caller inserts the returned id into the id set and duplicates the
\* result again (the copy is now part of the document it is duplicated in).
GenAgain ==
    /\ pc = "done"
    /\ call = 1
    /\ call' = 2
    /\ original_name' = ret.name
    /\ original_id' = ret.id
    /\ existing_ids' = existing_ids \cup {ret.id}
    /\ base_name' = <<>>
    /\ base_id' = <<>>
    /\ i' = 0
    /\ ret' = NoPair
    /\ pc' = "entry"
    /\ UNCHANGED docVars
    /\ UNCHANGED <<dupVars, matchVars, scoreVars, searchVars>>

GenNext == GenEntry \/ GenLoop \/ GenAgain

SpecGen == GenInit /\ [][GenNext]_vars

\* the same with the loop scheduled: a running call keeps executing
SpecGenFair == SpecGen /\ WF_vars(GenEntry) /\ WF_vars(GenLoop)

\* the statement-by-statement call returns what the function as a whole returns
GenStepsAgree ==
    pc = "done" => ret = get_unique_name_and_id(original_name, original_id, existing_ids)

-----------------------------------------------------------------------------
(* A chain of duplications: an item of the document is duplicated, then its *)
(* latest copy, each call against the id set grown by the ids returned so  *)
(* far                                                                      *)

MaxChain == 3      \* the chain has at most this many duplications

ChainNames == {<<"A">>, <<"A", " ", "(", "9", ")">>}
ChainIds == {<<"a">>, <<"a", "_", "9">>, <<" ", "a">>}

\* the first item is in the id set, with ids that are no candidate of the chain
ChainInit ==
    /\ pc = "entry"
    /\ call = 1
    /\ original_name \in ChainNames
    /\ original_id \in ChainIds
    /\ \E others \in SUBSET {OtherId, <<"a", "_", "9">>, <<"a", "_">>} :
          existing_ids = {original_id} \cup others
    /\ base_name = <<>>
    /\ base_id = <<>>
    /\ i = 0
    /\ ret = NoPair
    /\ current_sysmanual = <<>>
    /\ ops = 0
    /\ NoFramework
    /\ category_data = NoCategory
    /\ existing_cat_ids = {}
    /\ all_entry_ids = {}
    /\ new_category = NoCategory
    /\ NoMatchCall
    /\ NoScoreCall
    /\ NoSearchCall

\* the returned copy joins the document and is duplicated in its turn
DuplicateLatest ==
    /\ pc = "done"
    /\ call < MaxChain
    /\ call' = call + 1
    /\ original_name' = ret.name
    /\ original_id' = ret.id
    /\ existing_ids' = existing_ids \cup {ret.id}
    /\ base_name' = <<>>
    /\ base_id' = <<>>
    /\ i' = 0
    /\ ret' = NoPair
    /\ pc' = "entry"
    /\ UNCHANGED docVars
    /\ UNCHANGED <<dupVars, matchVars, scoreVars, searchVars>>

ChainNext == GenEntry \/ GenLoop \/ DuplicateLatest

SpecChain == ChainInit /\ [][ChainNext]_vars

-----------------------------------------------------------------------------
(* Duplication in SysManualCore, sysmanual_core.py lines 98-165 *)

RECURSIVE SeqToSet(_)
SeqToSet(q) == IF q = <<>> THEN {} ELSE {Head(q)} \cup SeqToSet(Tail(q))

\* lines 98-104: the ids of all entries of all categories
RECURSIVE get_all_entry_ids(_)
get_all_entry_ids(categories) ==
    IF categories = <<>> THEN {}
    ELSE {e.id : e \in SeqToSet(Head(categories).entries)}
            \cup get_all_entry_ids(Tail(categories))

\* line 152 left out: the new id is not added to current_entry_ids
grow_entry_ids_forgotten(current_entry_ids, new_entry_id) == current_entry_ids

\* line 152: current_entry_ids.append(new_entry_id)
grow_entry_ids(current_entry_ids, new_entry_id) == current_entry_ids \cup {new_entry_id}

\* lines 147-152: the entries of the copy renamed in order, each against the
\* ids given plus the ids minted before it
RECURSIVE rename_entries(_, _)
rename_entries(entries, current_entry_ids) ==
    IF entries = <<>> THEN <<>>
    ELSE LET entry == Head(entries)
             new   == get_unique_name_and_id(entry.name, entry.id, current_entry_ids)
         IN  <<[entry EXCEPT !.name = new.name, !.id = new.id]>>
                \o rename_entries(Tail(entries), grow_entry_ids(current_entry_ids, new.id))

\* lines 134-154
process_duplicated_category(cat, cat_ids, entry_ids) ==
    LET new == get_unique_name_and_id(cat.name, cat.id, cat_ids)
    IN  [cat EXCEPT !.name = new.name, !.id = new.id,
                    !.entries = rename_entries(cat.entries, entry_ids)]

\* lines 156-165
process_duplicated_entry(entry_data, entry_ids) ==
    LET new == get_unique_name_and_id(entry_data.name, entry_data.id, entry_ids)
    IN  [entry_data EXCEPT !.name = new.name, !.id = new.id]

-----------------------------------------------------------------------------
(* The editor, sysmanual_editor.py: operations on current_sysmanual         *)

MaxOps == 3   \* the number of editor operations performed on a document

\* lines 563-564: base_id = "new-category", base_name = "New Category"
NewCategoryId == <<"n", "e", "w", "-", "c", "a", "t", "e", "g", "o", "r", "y">>
NewCategoryName == <<"N", "e", "w", " ", "C", "a", "t", "e", "g", "o", "r", "y">>
\* lines 597-598: base_id = "new-entry", base_name = "New Entry"
NewEntryId == <<"n", "e", "w", "-", "e", "n", "t", "r", "y">>
NewEntryName == <<"N", "e", "w", " ", "E", "n", "t", "r", "y">>

InsertAt(q, k, x) == SubSeq(q, 1, k) \o <<x>> \o SubSeq(q, k + 1, Len(q))
RemoveAt(q, k) == SubSeq(q, 1, k - 1) \o SubSeq(q, k + 1, Len(q))
Swap(q, a, b) == [q EXCEPT ![a] = q[b], ![b] = q[a]]

\* an operation is performed, while the bound allows
Operate ==
    /\ ops < MaxOps
    /\ ops' = ops + 1

\* the editor changes its document in place: when the document is one of
\* `objects`, its `categories` list is the changed list
InPlace ==
    /\ lists' = IF editing = 0 THEN lists
                ELSE [lists EXCEPT ![objects[editing].categories] = current_sysmanual']
    /\ UNCHANGED <<sysmanuals, objects, editing>>

CatIndexes == 1..Len(current_sysmanual)
EntryIndexes(c) == 1..Len(current_sysmanual[c].entries)

\* lines 558-574
add_category ==
    /\ Operate
    /\ LET ids == {current_sysmanual[c].id : c \in CatIndexes}
           new == get_unique_name_and_id(NewCategoryName, NewCategoryId, ids)
       IN  current_sysmanual' =
               Append(current_sysmanual, [id |-> new.id, name |-> new.name, entries |-> <<>>])
    /\ UNCHANGED <<genVars, dupVars, matchVars, scoreVars, searchVars>>
    /\ InPlace

\* lines 576-612
add_entry ==
    /\ Operate
    /\ \E cat_idx \in CatIndexes :
          LET new == get_unique_name_and_id(NewEntryName, NewEntryId,
                                            get_all_entry_ids(current_sysmanual))
              entry == [id |-> new.id, name |-> new.name, description |-> "Description"]
          IN  current_sysmanual' =
                  [current_sysmanual EXCEPT ![cat_idx].entries = Append(@, entry)]
    /\ UNCHANGED <<genVars, dupVars, matchVars, scoreVars, searchVars>>
    /\ InPlace

\* lines 481-500
duplicate_category ==
    /\ Operate
    /\ \E cat_idx \in CatIndexes :
          /\ LET cat_ids == {current_sysmanual[c].id : c \in CatIndexes}
                 new == process_duplicated_category(current_sysmanual[cat_idx], cat_ids,
                                                    get_all_entry_ids(current_sysmanual))
             IN  current_sysmanual' = InsertAt(current_sysmanual, cat_idx, new)
    /\ UNCHANGED <<genVars, dupVars, matchVars, scoreVars, searchVars>>
    /\ InPlace

\* duplicate_entry without the deep copy: the original is renamed with its copy
duplicate_entry_in_place ==
    /\ Operate
    /\ \E cat_idx \in CatIndexes : \E entry_idx \in EntryIndexes(cat_idx) :
          LET new == process_duplicated_entry(current_sysmanual[cat_idx].entries[entry_idx],
                                              get_all_entry_ids(current_sysmanual))
          IN  current_sysmanual' =
                  [current_sysmanual EXCEPT
                      ![cat_idx].entries = InsertAt([@ EXCEPT ![entry_idx] = new], entry_idx, new)]
    /\ UNCHANGED <<genVars, dupVars, matchVars, scoreVars, searchVars>>
    /\ InPlace

\* lines 502-521
duplicate_entry ==
    /\ Operate
    /\ \E cat_idx \in CatIndexes : \E entry_idx \in EntryIndexes(cat_idx) :
          LET new == process_duplicated_entry(current_sysmanual[cat_idx].entries[entry_idx],
                                              get_all_entry_ids(current_sysmanual))
          IN  current_sysmanual' =
                  [current_sysmanual EXCEPT ![cat_idx].entries = InsertAt(@, entry_idx, new)]
    /\ UNCHANGED <<genVars, dupVars, matchVars, scoreVars, searchVars>>
    /\ InPlace

\* lines 614-637, the deletion confirmed
delete_item ==
    /\ Operate
    /\ \/ \E cat_idx \in CatIndexes :
             current_sysmanual' = RemoveAt(current_sysmanual, cat_idx)
       \/ \E cat_idx \in CatIndexes : \E entry_idx \in EntryIndexes(cat_idx) :
             current_sysmanual' =
                 [current_sysmanual EXCEPT ![cat_idx].entries = RemoveAt(@, entry_idx)]
    /\ UNCHANGED <<genVars, dupVars, matchVars, scoreVars, searchVars>>
    /\ InPlace

\* lines 639-666
move_item_up ==
    /\ Operate
    /\ \/ \E cat_idx \in CatIndexes :
             /\ cat_idx # 1
             /\ current_sysmanual' = Swap(current_sysmanual, cat_idx, cat_idx - 1)
       \/ \E cat_idx \in CatIndexes : \E entry_idx \in EntryIndexes(cat_idx) :
             /\ entry_idx # 1
             /\ current_sysmanual' =
                   [current_sysmanual EXCEPT ![cat_idx].entries = Swap(@, entry_idx, entry_idx - 1)]
    /\ UNCHANGED <<genVars, dupVars, matchVars, scoreVars, searchVars>>
    /\ InPlace

\* lines 668-695
move_item_down ==
    /\ Operate
    /\ \/ \E cat_idx \in CatIndexes :
             /\ cat_idx < Len(current_sysmanual)
             /\ current_sysmanual' = Swap(current_sysmanual, cat_idx, cat_idx + 1)
       \/ \E cat_idx \in CatIndexes : \E entry_idx \in EntryIndexes(cat_idx) :
             /\ entry_idx < Len(current_sysmanual[cat_idx].entries)
             /\ current_sysmanual' =
                   [current_sysmanual EXCEPT ![cat_idx].entries = Swap(@, entry_idx, entry_idx + 1)]
    /\ UNCHANGED <<genVars, dupVars, matchVars, scoreVars, searchVars>>
    /\ InPlace

\* the documents the editor starts from: ids pairwise distinct, with and
\* without counter suffixes, and the ids that add_category and add_entry mint
CatIdPool == {<<"c">>, <<"c", "_", "1">>}
EntryIdPool == {<<"a">>, <<"a", "_", "1">>, NewEntryId}

InitEntry(id) == [id |-> id, name |-> <<"A">>, description |-> "d"]

\* the injective sequences of length n over S
InjSeqs(S, n) == {q \in [1..n -> S] : \A a, b \in 1..n : a # b => q[a] # q[b]}

InitDocs ==
    {<<>>}
    \cup { <<[id |-> cid, name |-> <<"C">>, entries |-> [k \in 1..Len(es) |-> InitEntry(es[k])]]>> :
              cid \in CatIdPool, es \in UNION {InjSeqs(EntryIdPool, n) : n \in 0..2} }
    \cup { << [id |-> cids[1], name |-> <<"C">>, entries |-> <<InitEntry(es[1])>>],
              [id |-> cids[2], name |-> <<"C">>,
               entries |-> [k \in 1..(Len(es) - 1) |-> InitEntry(es[k + 1])]] >> :
              cids \in InjSeqs(CatIdPool, 2), es \in UNION {InjSeqs(EntryIdPool, n) : n \in 1..2} }

Init ==
    /\ current_sysmanual \in InitDocs
    /\ ops = 0
    /\ NoFramework
    /\ pc = "off"
    /\ call = 0
    /\ original_name = <<>>
    /\ original_id = <<>>
    /\ existing_ids = {}
    /\ base_name = <<>>
    /\ base_id = <<>>
    /\ i = 0
    /\ ret = NoPair
    /\ category_data = NoCategory
    /\ existing_cat_ids = {}
    /\ all_entry_ids = {}
    /\ new_category = NoCategory
    /\ NoMatchCall
    /\ NoScoreCall
    /\ NoSearchCall

Next ==
    \/ add_category
    \/ add_entry
    \/ duplicate_category
    \/ duplicate_entry
    \/ delete_item
    \/ move_item_up
    \/ move_item_down

Spec == Init /\ [][Next]_vars

-----------------------------------------------------------------------------
(* The editor window beside the framework: sysmanual_editor.py 163-167,     *)
(* 218-231 and 718-752, SysManual.py 135-152                               *)
(*                                                                         *)
(* A document is a dict object whose `categories` is a list object; the    *)
(* framework's map and the editor hold references.  current_sysmanual is   *)
(* the list of categories of the editor's document.                        *)

\* the document behind the reference r, with its list of categories
document(r) == [id |-> objects[r].id, categories |-> lists[objects[r].categories]]

\* load_sysmanual with copy.copy for copy.deepcopy: a new dict that shares
\* the list of categories
load_sysmanual_shallow ==
    /\ Operate
    /\ \E sysmanual_id \in DOMAIN sysmanuals :
          LET o == objects[sysmanuals[sysmanual_id]]
          IN  /\ objects' = Append(objects, o)
              /\ lists' = lists
              /\ editing' = Len(objects) + 1
              /\ current_sysmanual' = lists[o.categories]
    /\ UNCHANGED <<sysmanuals, genVars, dupVars, matchVars, scoreVars, searchVars>>

\* lines 163-167: copy.deepcopy gives a new dict with a new list
load_sysmanual ==
    /\ Operate
    /\ \E sysmanual_id \in DOMAIN sysmanuals :
          LET o == objects[sysmanuals[sysmanual_id]]
          IN  /\ lists' = Append(lists, lists[o.categories])
              /\ objects' = Append(objects, [id |-> o.id, categories |-> Len(lists) + 1])
              /\ editing' = Len(objects) + 1
              /\ current_sysmanual' = lists[o.categories]
    /\ UNCHANGED <<sysmanuals, genVars, dupVars, matchVars, scoreVars, searchVars>>

SysmanualIds == {<<"d", "1">>, <<"d", "2">>}
FieldValues == {<<"D">>}

\* lines 218-231 on the fields made at lines 307 and 321: typing in the ID
\* field of the document or in the Name field of a category updates the dict
edit_field ==
    /\ Operate
    /\ \/ /\ editing # 0
          /\ \E v \in SysmanualIds : objects' = [objects EXCEPT ![editing].id = v]
          /\ UNCHANGED <<current_sysmanual, sysmanuals, lists, editing>>
       \/ /\ \E cat_idx \in CatIndexes : \E v \in FieldValues :
                current_sysmanual' = [current_sysmanual EXCEPT ![cat_idx].name = v]
          /\ InPlace
    /\ UNCHANGED <<genVars, dupVars, matchVars, scoreVars, searchVars>>

\* lines 718-752 and SysManual.py 135-152: the dialog is cancelled, or the
\* document is written to the file and json.load makes a new dict of what
\* the file holds, which the framework puts in its map under the id
save_sysmanual ==
    /\ Operate
    /\ editing # 0
    /\ \E filepath \in {"", "f"} :
          IF filepath = ""
          THEN UNCHANGED <<sysmanuals, objects, lists>>
          ELSE LET sysmanual_data == document(editing)
               IN  /\ lists' = Append(lists, sysmanual_data.categories)
                   /\ objects' = Append(objects, [id |-> sysmanual_data.id,
                                                  categories |-> Len(lists) + 1])
                   /\ sysmanuals' =
                         [k \in DOMAIN sysmanuals \cup {sysmanual_data.id} |->
                             IF k = sysmanual_data.id THEN Len(objects) + 1
                             ELSE sysmanuals[k]]
    /\ UNCHANGED <<current_sysmanual, editing, genVars, dupVars, matchVars, scoreVars,
                   searchVars>>

\* the framework holds two documents, the editor none of them yet
FrameInit ==
    /\ current_sysmanual = <<>>
    /\ ops = 0
    /\ sysmanuals = [k \in SysmanualIds |-> IF k = <<"d", "1">> THEN 1 ELSE 2]
    /\ objects = <<[id |-> <<"d", "1">>, categories |-> 1],
                   [id |-> <<"d", "2">>, categories |-> 2]>>
    /\ lists \in {<<doc, <<>> >> : doc \in {d \in InitDocs : Len(d) = 1}}
    /\ editing = 0
    /\ pc = "off"
    /\ call = 0
    /\ original_name = <<>>
    /\ original_id = <<>>
    /\ existing_ids = {}
    /\ base_name = <<>>
    /\ base_id = <<>>
    /\ i = 0
    /\ ret = NoPair
    /\ category_data = NoCategory
    /\ existing_cat_ids = {}
    /\ all_entry_ids = {}
    /\ new_category = NoCategory
    /\ NoMatchCall
    /\ NoScoreCall
    /\ NoSearchCall

FrameNext ==
    \/ load_sysmanual
    \/ edit_field
    \/ add_category
    \/ add_entry
    \/ duplicate_category
    \/ duplicate_entry
    \/ delete_item
    \/ move_item_up
    \/ move_item_down
    \/ save_sysmanual

SpecFrame == FrameInit /\ [][FrameNext]_vars

-----------------------------------------------------------------------------
(* The editor of the single-file program, SysManual.py: its own generator  *)
(* and the two handlers that add an item                                   *)

\* SysManual.py 1133-1138: the first candidate, from `count` on, that is free
RECURSIVE single_file_loop(_, _, _, _)
single_file_loop(b_name, b_id, ids, count) ==
    LET c == find_next_name_id(b_name, b_id, count)
    IN  IF c.id \notin ids THEN c
        ELSE single_file_loop(b_name, b_id, ids, count + 1)

\* SysManual.py 1117-1139: the stripping of the core generator, then the
\* counter loop at once, with no test of the original id
_get_unique_name_and_id(o_name, o_id, ids) ==
    single_file_loop(base_name_of(o_name), base_id_of(o_id), ids, 1)

\* SysManual.py 1274, 1309: re.search(r" \(\d+\)$", new_name) finds a counter
search_suffix(s) ==
    LET n == Len(s)
        d == DigitRun(s, n - 1)
    IN  /\ n >= 4
        /\ s[n] = ")"
        /\ d >= 1
        /\ n - 2 - d >= 1
        /\ s[n - 1 - d] = "("
        /\ s[n - 2 - d] = " "

\* SysManual.py 1271-1275, 1306-1310: the generated pair, or the base pair
\* when the generated name has no counter and the base id is free
new_name_and_id(b_name, b_id, ids) ==
    LET new == _get_unique_name_and_id(b_name, b_id, ids)
    IN  IF ~search_suffix(new.name) /\ b_id \notin ids
        THEN [name |-> b_name, id |-> b_id]
        ELSE new

\* SysManual.py 1257-1279
single_file_add_category ==
    /\ Operate
    /\ LET existing == {current_sysmanual[c].id : c \in CatIndexes}
           new == new_name_and_id(NewCategoryName, NewCategoryId, existing)
       IN  current_sysmanual' =
               Append(current_sysmanual, [id |-> new.id, name |-> new.name, entries |-> <<>>])
    /\ UNCHANGED <<genVars, dupVars, matchVars, scoreVars, searchVars, frameVars>>

\* SysManual.py 1281-1322
single_file_add_entry ==
    /\ Operate
    /\ \E cat_idx \in CatIndexes :
          LET new == new_name_and_id(NewEntryName, NewEntryId,
                                     get_all_entry_ids(current_sysmanual))
              new_entry == [id |-> new.id, name |-> new.name, description |-> "Description"]
          IN  current_sysmanual' =
                  [current_sysmanual EXCEPT ![cat_idx].entries = Append(@, new_entry)]
    /\ UNCHANGED <<genVars, dupVars, matchVars, scoreVars, searchVars, frameVars>>

SingleFileNext == single_file_add_category \/ single_file_add_entry

SpecSingleFile == Init /\ [][SingleFileNext]_vars

-----------------------------------------------------------------------------
(* One call of process_duplicated_category on arguments of the caller's choice *)

MaxDupEntries == 2   \* the duplicated category has at most this many entries

DupEntryIdPool == {<<"a">>, <<"a", "_", "1">>, <<"a", "_", "2">>, <<"b">>}
DupKnownIdPool == DupEntryIdPool \cup {<<"a", "_", "3">>}

DupInit ==
    /\ pc = "dup"
    /\ \E es \in UNION {InjSeqs(DupEntryIdPool, n) : n \in 0..MaxDupEntries} :
          category_data = [id |-> <<"c">>, name |-> <<"C">>,
                           entries |-> [k \in 1..Len(es) |-> InitEntry(es[k])]]
    /\ existing_cat_ids \in SUBSET CatIdPool
    /\ all_entry_ids \in SUBSET DupKnownIdPool
    /\ new_category = NoCategory
    /\ call = 0
    /\ original_name = <<>>
    /\ original_id = <<>>
    /\ existing_ids = {}
    /\ base_name = <<>>
    /\ base_id = <<>>
    /\ i = 0
    /\ ret = NoPair
    /\ current_sysmanual = <<>>
    /\ ops = 0
    /\ NoFramework
    /\ NoMatchCall
    /\ NoScoreCall
    /\ NoSearchCall

\* sysmanual_core.py lines 134-154
DupCategory ==
    /\ pc = "dup"
    /\ new_category' =
          process_duplicated_category(category_data, existing_cat_ids, all_entry_ids)
    /\ pc' = "dup_done"
    /\ UNCHANGED <<call, original_name, original_id, existing_ids, base_name, base_id,
                   i, ret, docVars, category_data, existing_cat_ids, all_entry_ids,
                   matchVars, scoreVars, searchVars>>

DupNext == DupCategory

SpecDup == DupInit /\ [][DupNext]_vars

-----------------------------------------------------------------------------
(* SysManualSearch.best_match_score_for_token, sysmanual_core.py 179-204    *)
(*                                                                         *)
(* A score is an integer number of units of 1/Scale: every score the       *)
(* function can produce for the bounded inputs is a whole number of units, *)
(* so the arithmetic below is exact.                                        *)

MaxTokenLen == 3   \* tokens have at most this many characters
MaxTextLen == 4    \* texts have at most this many characters

RECURSIVE Gcd(_, _)
Gcd(a, b) == IF b = 0 THEN a ELSE Gcd(b, a % b)

RECURSIVE LcmUpTo(_)
LcmUpTo(n) == IF n <= 1 THEN 1 ELSE (LcmUpTo(n - 1) * n) \div Gcd(LcmUpTo(n - 1), n)

\* 1.0 in units; a multiple of 10 * (len(token) + len(word)) for all lengths
Scale == 10 * LcmUpTo(MaxTokenLen + MaxTextLen)

Tenths(n) == (n * Scale) \div 10

\* str.lower() on the characters of the model
LowerChar(c) ==
    IF c = "A" THEN "a" ELSE IF c = "B" THEN "b" ELSE IF c = "N" THEN "n" ELSE c

lower(s) == [k \in 1..Len(s) |-> LowerChar(s[k])]

\* \w of the pattern of line 191
IsWordChar(c) == c \in {"a", "b", "A", "B", "n", "o", "e", "N", "_"} \cup DigitChars

\* line 191: re.findall(r"\w+", text_l), the maximal runs of word characters
RECURSIVE findall_words(_, _)
findall_words(s, word) ==
    IF s = <<>> THEN (IF word = <<>> THEN <<>> ELSE <<word>>)
    ELSE IF IsWordChar(Head(s)) THEN findall_words(Tail(s), Append(word, Head(s)))
    ELSE (IF word = <<>> THEN <<>> ELSE <<word>>) \o findall_words(Tail(s), <<>>)

\* `x in y` on strings: x is a contiguous part of y
Contains(y, x) == \E k \in 0..(Len(y) - Len(x)) : SubSeq(y, k + 1, k + Len(x)) = x

\* difflib.SequenceMatcher: the length of the common run of a from i and b
\* from j, inside a[..ahi) and b[..bhi)
RECURSIVE RunLen(_, _, _, _, _, _)
RunLen(a, b, m, n, ahi, bhi) ==
    IF m < ahi /\ n < bhi /\ a[m] = b[n] THEN 1 + RunLen(a, b, m + 1, n + 1, ahi, bhi)
    ELSE 0

\* difflib.SequenceMatcher.find_longest_match: the longest common block of
\* a[alo..ahi) and b[blo..bhi); of those the one earliest in a, then in b
find_longest_match(a, b, alo, ahi, blo, bhi) ==
    LET blocks == {<<m, n, RunLen(a, b, m, n, ahi, bhi)>> :
                       m \in alo..(ahi - 1), n \in blo..(bhi - 1)}
        real == {x \in blocks : x[3] > 0}
    IN  IF real = {} THEN <<alo, blo, 0>>
        ELSE CHOOSE x \in real :
                \A y \in real :
                    \/ x[3] > y[3]
                    \/ x[3] = y[3] /\ x[1] < y[1]
                    \/ x[3] = y[3] /\ x[1] = y[1] /\ x[2] <= y[2]

\* difflib.SequenceMatcher.get_matching_blocks: the total size of the blocks
\* found by splitting at the longest block and recursing to its left and right
RECURSIVE matches(_, _, _, _, _, _)
matches(a, b, alo, ahi, blo, bhi) ==
    IF alo >= ahi \/ blo >= bhi THEN 0
    ELSE LET x == find_longest_match(a, b, alo, ahi, blo, bhi)
         IN  IF x[3] = 0 THEN 0
             ELSE x[3] + matches(a, b, alo, x[1], blo, x[2])
                       + matches(a, b, x[1] + x[3], ahi, x[2] + x[3], bhi)

\* line 201: SequenceMatcher(None, token, w).ratio() = 2.0 * matches / length
ratio(a, b) ==
    IF Len(a) + Len(b) = 0 THEN Scale
    ELSE (2 * matches(a, b, 1, Len(a) + 1, 1, Len(b) + 1) * Scale) \div (Len(a) + Len(b))

Max(x, y) == IF x >= y THEN x ELSE y

\* lines 198-203 with the containment credit added up instead of maximised
word_candidate_summed(best, tok, w) ==
    IF Contains(w, tok) \/ Contains(tok, w) THEN best + Tenths(7)
    ELSE (IF ratio(tok, w) > best THEN ratio(tok, w) ELSE best)

\* lines 198-203: the running best after the word w
word_candidate(best, tok, w) ==
    IF Contains(w, tok) \/ Contains(tok, w) THEN Max(best, Tenths(7))
    ELSE (IF ratio(tok, w) > best THEN ratio(tok, w) ELSE best)

\* lines 192-203 with `return best` for line 204
RECURSIVE words_loop_unscaled(_, _, _)
words_loop_unscaled(tok, words, best) ==
    IF words = <<>> THEN best
    ELSE IF tok = Head(words) THEN Scale
    ELSE words_loop_unscaled(tok, Tail(words), word_candidate(best, tok, Head(words)))

\* lines 192-204: the loop over the words; an exact word returns 1.0 at once
RECURSIVE words_loop(_, _, _)
words_loop(tok, words, best) ==
    IF words = <<>> THEN (best * 9) \div 10
    ELSE IF tok = Head(words) THEN Scale
    ELSE words_loop(tok, Tail(words), word_candidate(best, tok, Head(words)))

\* lines 179-204
best_match_score_for_token(tok, txt) ==
    IF tok = <<>> \/ txt = <<>> THEN 0
    ELSE LET t == lower(tok)
             text_l == lower(txt)
         IN  IF t = text_l THEN Scale
             ELSE IF Contains(text_l, t) THEN Tenths(6)
             ELSE words_loop(t, findall_words(text_l, <<>>), 0)

TokenChars == {"a", "b", "A", " "}
TextChars == {"a", "b", "A", " "}

MatchInit ==
    /\ pc = "match"
    /\ token \in UNION {[1..n -> TokenChars] : n \in 0..MaxTokenLen}
    /\ text \in UNION {[1..n -> TextChars] : n \in 0..MaxTextLen}
    /\ score = 0
    /\ call = 0
    /\ original_name = <<>>
    /\ original_id = <<>>
    /\ existing_ids = {}
    /\ base_name = <<>>
    /\ base_id = <<>>
    /\ i = 0
    /\ ret = NoPair
    /\ current_sysmanual = <<>>
    /\ ops = 0
    /\ NoFramework
    /\ category_data = NoCategory
    /\ existing_cat_ids = {}
    /\ all_entry_ids = {}
    /\ new_category = NoCategory
    /\ NoScoreCall
    /\ NoSearchCall

\* one call of best_match_score_for_token
Match ==
    /\ pc = "match"
    /\ score' = best_match_score_for_token(token, text)
    /\ pc' = "match_done"
    /\ UNCHANGED <<call, original_name, original_id, existing_ids, base_name, base_id,
                   i, ret, docVars, dupVars, token, text, scoreVars, searchVars>>

MatchNext == Match

SpecMatch == MatchInit /\ [][MatchNext]_vars

-----------------------------------------------------------------------------
(* SysManualSearch.score_entry, sysmanual_core.py 206-249                   *)
(*                                                                         *)
(* An entry is a dict with the str fields name, description and notes, the *)
(* dict `content`, given by the list of its values, and the list           *)
(* `examples`.  An example is a bare str or a dict {command, description}; *)
(* a key the dict lacks reads as '' (the default of .get).  The returned   *)
(* float is the exact fraction raw / divisor of one unit Scale.            *)

MaxTokens == 2     \* token lists have at most this many tokens

StrExample(c) == [is_dict |-> FALSE, command |-> c, description |-> <<>>]
DictExample(c, d) == [is_dict |-> TRUE, command |-> c, description |-> d]

\* " ".join(parts)
RECURSIVE join(_)
join(parts) ==
    IF parts = <<>> THEN <<>>
    ELSE IF Len(parts) = 1 THEN Head(parts)
    ELSE Head(parts) \o <<" ">> \o join(Tail(parts))

\* a value that is Python's None (a key that is absent is not in DOMAIN e)
Null == <<"None">>

\* str(None)
NoneStr == <<"N", "o", "n", "e">>

\* line 211: entry.get('name', '') or ''
name_text(e) == IF "name" \in DOMAIN e /\ e.name # Null THEN e.name ELSE <<>>

\* line 212
desc_text(e) ==
    IF "description" \in DOMAIN e /\ e.description # Null THEN e.description ELSE <<>>

\* line 229
notes_text(e) == IF "notes" \in DOMAIN e /\ e.notes # Null THEN e.notes ELSE <<>>

\* lines 213-217 with str(entry.get('content')) in place of line 217
content_val_str(e) == IF "content" \in DOMAIN e THEN join(e.content) ELSE NoneStr

\* lines 213-217: without the key, .get gives None and line 217 gives ''
content_val(e) == IF "content" \in DOMAIN e THEN join(e.content) ELSE <<>>

\* lines 221-227: a str gives one part, a dict its command and its description
RECURSIVE ex_parts(_)
ex_parts(examples) ==
    IF examples = <<>> THEN <<>>
    ELSE LET ex == Head(examples)
         IN  (IF ex.is_dict THEN <<ex.command, ex.description>> ELSE <<ex.command>>)
                \o ex_parts(Tail(examples))

\* lines 219-228: without the key, .get gives None, which is no list
examples_val(e) == IF "examples" \in DOMAIN e THEN join(ex_parts(e.examples)) ELSE <<>>

\* lines 231-237, in tenths
weights == [name |-> 30, description |-> 18, content |-> 15, examples |-> 12, notes |-> 10]

\* the sum of the weights rounded up to a whole number, 9.0
max_weight_sum_rounded ==
    ((weights.name + weights.description + weights.content + weights.examples
        + weights.notes + 9) \div 10) * 10

\* line 238, in tenths
max_weight_sum ==
    weights.name + weights.description + weights.content + weights.examples + weights.notes

\* lines 242-246: what one token adds to raw_score, in tenths of a unit
token_score(e, tok) ==
      best_match_score_for_token(tok, name_text(e)) * weights.name
    + best_match_score_for_token(tok, desc_text(e)) * weights.description
    + best_match_score_for_token(tok, content_val(e)) * weights.content
    + best_match_score_for_token(tok, examples_val(e)) * weights.examples
    + best_match_score_for_token(tok, notes_text(e)) * weights.notes

\* lines 240-246
RECURSIVE raw_score(_, _)
raw_score(e, toks) ==
    IF toks = <<>> THEN 0 ELSE token_score(e, Head(toks)) + raw_score(e, Tail(toks))

\* score_entry without the early return of lines 208-209
score_entry_unguarded(e, toks) ==
    [raw |-> raw_score(e, toks), divisor |-> Len(toks) * max_weight_sum]

\* score_entry normalised by the weights only, not by the number of tokens
score_entry_per_query(e, toks) ==
    IF toks = <<>> THEN [raw |-> Scale, divisor |-> 1]
    ELSE [raw |-> raw_score(e, toks), divisor |-> max_weight_sum]

\* lines 206-249
score_entry(e, toks) ==
    IF toks = <<>> THEN [raw |-> Scale, divisor |-> 1]
    ELSE [raw |-> raw_score(e, toks), divisor |-> Len(toks) * max_weight_sum]

ScoreNames == {<<>>, <<"a">>, <<"a", "b">>, <<"A", " ", "b">>}
ScoreDescriptions == {<<>>, <<"b">>}
ScoreContents == {<<>>, << <<"a">>, <<"b">> >>}
ScoreCommands == {<<"a">>, <<"a", "b">>}
ScoreExamples ==
    {<<>>, <<StrExample(<<"a">>), StrExample(<<"b">>)>>}
    \cup {<<StrExample(c)>> : c \in ScoreCommands}
    \cup {<<DictExample(c, d)>> : c \in ScoreCommands, d \in {<<>>, <<"b">>}}
ScoreNotes == {<<>>, <<"a">>}
ScoreTokens == {<<"a">>, <<"b">>, <<"b", "a">>, <<"A", "b">>}

ScoreInit ==
    /\ pc = "score"
    /\ entry_in \in [name : ScoreNames, description : ScoreDescriptions,
                     content : ScoreContents, examples : ScoreExamples,
                     notes : ScoreNotes]
    /\ tokens \in UNION {[1..n -> ScoreTokens] : n \in 0..MaxTokens}
    /\ normalized = NoScore
    /\ call = 0
    /\ original_name = <<>>
    /\ original_id = <<>>
    /\ existing_ids = {}
    /\ base_name = <<>>
    /\ base_id = <<>>
    /\ i = 0
    /\ ret = NoPair
    /\ current_sysmanual = <<>>
    /\ ops = 0
    /\ NoFramework
    /\ category_data = NoCategory
    /\ existing_cat_ids = {}
    /\ all_entry_ids = {}
    /\ new_category = NoCategory
    /\ NoMatchCall
    /\ NoSearchCall

\* one call of score_entry
Score ==
    /\ pc = "score"
    /\ normalized' = score_entry(entry_in, tokens)
    /\ pc' = "score_done"
    /\ UNCHANGED <<call, original_name, original_id, existing_ids, base_name, base_id,
                   i, ret, docVars, dupVars, matchVars, entry_in, tokens, searchVars>>

ScoreNext == Score

SpecScore == ScoreInit /\ [][ScoreNext]_vars

(* score_entry on entries that lack keys or hold None.  A sparse entry is a *)
(* full one with the keys of `absent` removed and the keys of `nulled` set  *)
(* to None.                                                                *)
sparse(e, absent, nulled) ==
    [f \in (DOMAIN e) \ absent |-> IF f \in nulled THEN Null ELSE e[f]]

SparseFull ==
    [name : {<<"a">>, <<"A", " ", "b">>}, description : ScoreDescriptions,
     content : ScoreContents, examples : {<<>>, <<StrExample(<<"a">>)>>},
     notes : ScoreNotes]

SparseTokens == {<<"a">>, <<"b">>, NoneStr}

SparseInit ==
    /\ pc = "score"
    /\ entry_in \in {sparse(e, a, n) : e \in SparseFull,
                                       a \in SUBSET {"content", "examples", "notes"},
                                       n \in SUBSET {"name", "description", "notes"}}
    /\ tokens \in UNION {[1..n -> SparseTokens] : n \in 0..MaxTokens}
    /\ normalized = NoScore
    /\ call = 0
    /\ original_name = <<>>
    /\ original_id = <<>>
    /\ existing_ids = {}
    /\ base_name = <<>>
    /\ base_id = <<>>
    /\ i = 0
    /\ ret = NoPair
    /\ current_sysmanual = <<>>
    /\ ops = 0
    /\ NoFramework
    /\ category_data = NoCategory
    /\ existing_cat_ids = {}
    /\ all_entry_ids = {}
    /\ new_category = NoCategory
    /\ NoMatchCall
    /\ NoSearchCall

SpecSparse == SparseInit /\ [][ScoreNext]_vars

-----------------------------------------------------------------------------
(* SysManualSearch.search_entries_in_category, sysmanual_core.py 251-267    *)
(*                                                                         *)
(* The entries are objects: `heap` maps a reference to the dict behind it, *)
(* and a list of entries is a list of references.  A call is modelled by   *)
(* what it leaves behind: the objects, the caller's list and the returned  *)
(* list.                                                                    *)

MaxListLen == 3    \* the searched list has at most this many entries
MaxQueryLen == 2   \* queries tried exhaustively have at most this many characters

\* the query argument None
None == <<"None">>

Hundredths(n) == (n * Scale) \div 100

\* line 251: min_score = 0.12
DefaultMinScore == [raw |-> Hundredths(12), divisor |-> 1]

\* a >= b on the fractions a and b
ScoreGE(a, b) == a.raw * b.divisor >= b.raw * a.divisor

\* tokenize that keeps the whole lowercased text as one token
tokenize_unsplit(txt) == IF txt = <<>> THEN <<>> ELSE <<lower(txt)>>

\* lines 172-177
tokenize(txt) == IF txt = <<>> THEN <<>> ELSE findall_words(lower(txt), <<>>)

\* line 264 with an exclusive threshold
keeps_above(s, ms) == ~ScoreGE(ms, s)

\* line 264: score >= min_score
keeps(s, ms) == ScoreGE(s, ms)

\* lines 261-265: the (score, entry) pairs of the entries that pass
RECURSIVE scored_of(_, _, _, _)
scored_of(h, es, toks, ms) ==
    IF es = <<>> THEN <<>>
    ELSE LET s == score_entry(h[Head(es)], toks)
         IN  (IF keeps(s, ms) THEN << <<s, Head(es)>> >> ELSE <<>>)
                \o scored_of(h, Tail(es), toks, ms)

\* the pair x put in front of every pair of `sorted` whose score is at most x's
RECURSIVE insert_desc_in_front(_, _)
insert_desc_in_front(sorted, x) ==
    IF sorted = <<>> THEN <<x>>
    ELSE IF ~ScoreGE(x[1], Head(sorted)[1])
         THEN <<Head(sorted)>> \o insert_desc_in_front(Tail(sorted), x)
    ELSE <<x>> \o sorted

\* the pair x put behind every pair of `sorted` whose score is at least x's
RECURSIVE insert_desc(_, _)
insert_desc(sorted, x) ==
    IF sorted = <<>> THEN <<x>>
    ELSE IF ScoreGE(Head(sorted)[1], x[1])
         THEN <<Head(sorted)>> \o insert_desc(Tail(sorted), x)
    ELSE <<x>> \o sorted

\* line 266 left out
sort_skipped(scored) == scored

\* line 266: list.sort(key=score, reverse=True), a stable sort
RECURSIVE sort_desc(_)
sort_desc(scored) ==
    IF scored = <<>> THEN <<>>
    ELSE insert_desc(sort_desc(SubSeq(scored, 1, Len(scored) - 1)), scored[Len(scored)])

\* line 267
entries_of(scored) == [k \in 1..Len(scored) |-> scored[k][2]]

\* lines 255, 259: entries.copy(), a new list of the same references
copy(es) == es

\* search_entries_in_category with copy.deepcopy(entries) for entries.copy()
search_entries_deep_copied(h, es, q, ms) ==
    LET stripped == strip(IF q = None THEN <<>> ELSE q)
        toks == tokenize(stripped)
    IN  IF stripped = <<>> \/ toks = <<>>
        THEN [heap |-> h \o [k \in 1..Len(es) |-> h[es[k]]], entries |-> es,
              result |-> [k \in 1..Len(es) |-> Len(h) + k]]
        ELSE [heap |-> h, entries |-> es,
              result |-> entries_of(sort_desc(scored_of(h, es, toks, ms)))]

\* lines 251-267
search_entries_in_category(h, es, q, ms) ==
    LET stripped == strip(IF q = None THEN <<>> ELSE q)
        toks == tokenize(stripped)
    IN  IF stripped = <<>> \/ toks = <<>>
        THEN [heap |-> h, entries |-> es, result |-> copy(es)]
        ELSE [heap |-> h, entries |-> es,
              result |-> entries_of(sort_desc(scored_of(h, es, toks, ms)))]

SearchEntry(name, notes) ==
    [name |-> name, description |-> <<>>, content |-> <<>>, examples |-> <<>>,
     notes |-> notes]

\* four objects; the first and the last are equal dicts
SearchHeap ==
    << SearchEntry(<<"a">>, <<>>), SearchEntry(<<"a", "b">>, <<>>),
       SearchEntry(<<"b">>, <<"a">>), SearchEntry(<<"a">>, <<>>) >>

QueryChars == {"a", " ", "-"}
Queries ==
    {None, <<"a", " ", "b">>, <<" ", "A", " ">>, <<"b">>}
    \cup UNION {[1..n -> QueryChars] : n \in 0..MaxQueryLen}

\* 0.0, the default, 1.0, 2.0 and the scores of the objects themselves
MinScores(h, q) ==
    {[raw |-> 0, divisor |-> 1], DefaultMinScore, [raw |-> Scale, divisor |-> 1],
     [raw |-> 2 * Scale, divisor |-> 1]}
    \cup (IF q = None THEN {}
          ELSE {score_entry(h[r], tokenize(strip(q))) : r \in 1..Len(h)})

SearchInit ==
    /\ pc = "search"
    /\ heap = SearchHeap
    /\ entries_in \in UNION {[1..n -> 1..Len(SearchHeap)] : n \in 0..MaxListLen}
    /\ query \in Queries
    /\ min_score \in MinScores(heap, query)
    /\ result = <<>>
    /\ sysmanual = NoSysmanual
    /\ shown = <<>>
    /\ current_category = <<>>
    /\ call = 0
    /\ original_name = <<>>
    /\ original_id = <<>>
    /\ existing_ids = {}
    /\ base_name = <<>>
    /\ base_id = <<>>
    /\ i = 0
    /\ ret = NoPair
    /\ current_sysmanual = <<>>
    /\ ops = 0
    /\ NoFramework
    /\ category_data = NoCategory
    /\ existing_cat_ids = {}
    /\ all_entry_ids = {}
    /\ new_category = NoCategory
    /\ NoMatchCall
    /\ NoScoreCall

\* one call of search_entries_in_category
Search ==
    /\ pc = "search"
    /\ LET after == search_entries_in_category(heap, entries_in, query, min_score)
       IN  /\ heap' = after.heap
           /\ entries_in' = after.entries
           /\ result' = after.result
    /\ pc' = "search_done"
    /\ UNCHANGED <<call, original_name, original_id, existing_ids, base_name, base_id,
                   i, ret, docVars, dupVars, matchVars, scoreVars, query, min_score,
                   sysmanual, shown, current_category>>

SearchNext == Search

SpecSearch == SearchInit /\ [][SearchNext]_vars

-----------------------------------------------------------------------------
(* run_advanced_search of open_advanced_search, SysManual.py 597-625        *)
(*                                                                         *)
(* `shown` is the list of the children of the results container in the     *)
(* order they are packed: a header label per category with matches, each   *)
(* followed by one widget per matching entry.                               *)

MaxAdvCategories == 2   \* the searched document has at most this many categories

\* lines 614-620: the label "=== <category name> ==="
header_of(name) ==
    [kind |-> "header", text |-> <<"=", "=", "=", " ">> \o name \o <<" ", "=", "=", "=">>,
     ref |-> 0]

\* lines 622-623: create_entry_widget_popup for each of `matches`, in order
entry_widgets(found) ==
    [k \in 1..Len(found) |-> [kind |-> "entry", text |-> <<>>, ref |-> found[k]]]

\* all categories searched as one list and shown as one ranking
run_advanced_search_merged(h, doc, q) ==
    LET RECURSIVE all_entries(_)
        all_entries(cs) ==
            IF cs = <<>> THEN <<>> ELSE Head(cs).entries \o all_entries(Tail(cs))
    IN  IF strip(q) = <<>> \/ ~doc.loaded THEN <<>>
        ELSE entry_widgets(
                search_entries_in_category(h, all_entries(doc.categories), strip(q),
                                           DefaultMinScore).result)

\* lines 608-623: the loop over the categories
RECURSIVE category_loop(_, _, _)
category_loop(h, cats, q) ==
    IF cats = <<>> THEN <<>>
    ELSE LET category == Head(cats)
             \* `matches`
             found == search_entries_in_category(h, category.entries, q,
                                                   DefaultMinScore).result
         IN  (IF found = <<>> THEN <<>>
              ELSE <<header_of(category.name)>> \o entry_widgets(found))
                \o category_loop(h, Tail(cats), q)

\* lines 597-623: the container's children after the run
run_advanced_search(h, doc, q) ==
    IF strip(q) = <<>> \/ ~doc.loaded THEN <<>>
    ELSE category_loop(h, doc.categories, strip(q))

AdvCategoryName(k) == <<"C">> \o Dec(k)

\* the entry lists a category may hold
AdvEntryLists == {<<>>, <<3>>, <<1>>, <<2, 3>>, <<2, 4, 1>>}

\* no document loaded, or a document of up to MaxAdvCategories categories
AdvDocs ==
    {NoSysmanual}
    \cup UNION {{[loaded |-> TRUE,
                  categories |-> [k \in 1..n |-> [name |-> AdvCategoryName(k),
                                                  entries |-> ls[k]]]] :
                    ls \in [1..n -> AdvEntryLists]} : n \in 0..MaxAdvCategories}

\* what the query field may hold when the search is run: a str
AdvQueries == Queries \ {None}

AdvInit ==
    /\ pc = "adv"
    /\ heap = SearchHeap
    /\ sysmanual \in AdvDocs
    /\ query \in AdvQueries
    /\ shown = <<>>
    /\ current_category = <<>>
    /\ entries_in = <<>>
    /\ min_score = DefaultMinScore
    /\ result = <<>>
    /\ call = 0
    /\ original_name = <<>>
    /\ original_id = <<>>
    /\ existing_ids = {}
    /\ base_name = <<>>
    /\ base_id = <<>>
    /\ i = 0
    /\ ret = NoPair
    /\ current_sysmanual = <<>>
    /\ ops = 0
    /\ NoFramework
    /\ category_data = NoCategory
    /\ existing_cat_ids = {}
    /\ all_entry_ids = {}
    /\ new_category = NoCategory
    /\ NoMatchCall
    /\ NoScoreCall

\* the Search button or <Return> with `query` in the query field
AdvancedSearch ==
    /\ pc = "adv"
    /\ shown' = run_advanced_search(heap, sysmanual, query)
    /\ pc' = "adv_done"
    /\ UNCHANGED <<call, original_name, original_id, existing_ids, base_name, base_id,
                   i, ret, docVars, dupVars, matchVars, scoreVars, heap, entries_in,
                   query, min_score, result, sysmanual, current_category>>

AdvNext == AdvancedSearch

SpecAdv == AdvInit /\ [][AdvNext]_vars

-----------------------------------------------------------------------------
(* display_entries of the main window, SysManual.py 399-460                 *)
(*                                                                         *)
(* `shown` is the list of the children of entries_container after the run, *)
(* `query` the text of search_var.                                          *)

\* lines 429-432: the commands of the examples, a bare str standing for itself
RECURSIVE example_commands(_)
example_commands(examples) ==
    IF examples = <<>> THEN <<>>
    ELSE <<Head(examples).command>> \o example_commands(Tail(examples))

\* lines 425-435
textblock(e) ==
    lower(e.name \o <<" ">> \o e.description \o <<" ">> \o join(e.content) \o <<" ">>
            \o join(example_commands(e.examples)) \o <<" ">> \o e.notes)

\* lines 424-438: the entries whose textblock contains st, in the order given
RECURSIVE substring_matches(_, _, _)
substring_matches(h, es, st) ==
    IF es = <<>> THEN <<>>
    ELSE (IF Contains(textblock(h[Head(es)]), st) THEN <<Head(es)>> ELSE <<>>)
            \o substring_matches(h, Tail(es), st)

\* lines 414-417, 446-449: next(c for c in categories if c['id'] == current), or none
category_with_id(cats, cur) ==
    LET found == {k \in 1..Len(cats) : cats[k].id = cur}
    IN  IF found = {} THEN <<>>
        ELSE <<cats[CHOOSE k \in found : \A j \in found : k <= j]>>

\* lines 399-455: the container's children after the run
display_entries(h, doc, cur, search_var) ==
    LET search_term == strip(search_var)
        category == category_with_id(doc.categories, cur)
    IN  IF ~doc.loaded \/ cur = <<>> \/ category = <<>> THEN <<>>
        ELSE IF search_term # <<>>
             THEN entry_widgets(substring_matches(h, category[1].entries, lower(search_term)))
        ELSE entry_widgets(category[1].entries)

LiveCategoryId(k) == <<"c">> \o Dec(k)

\* no document loaded, or a document of up to MaxAdvCategories categories
LiveDocs ==
    {NoSysmanual}
    \cup UNION {{[loaded |-> TRUE,
                  categories |-> [k \in 1..n |-> [id |-> LiveCategoryId(k),
                                                  name |-> AdvCategoryName(k),
                                                  entries |-> ls[k]]]] :
                    ls \in [1..n -> AdvEntryLists]} : n \in 1..MaxAdvCategories}

LiveInit ==
    /\ pc = "live"
    /\ heap = SearchHeap
    /\ sysmanual \in LiveDocs
    /\ current_category \in {<<>>} \cup {LiveCategoryId(k) : k \in 1..(MaxAdvCategories + 1)}
    /\ query \in AdvQueries
    /\ shown = <<>>
    /\ entries_in = <<>>
    /\ min_score = DefaultMinScore
    /\ result = <<>>
    /\ call = 0
    /\ original_name = <<>>
    /\ original_id = <<>>
    /\ existing_ids = {}
    /\ base_name = <<>>
    /\ base_id = <<>>
    /\ i = 0
    /\ ret = NoPair
    /\ current_sysmanual = <<>>
    /\ ops = 0
    /\ NoFramework
    /\ category_data = NoCategory
    /\ existing_cat_ids = {}
    /\ all_entry_ids = {}
    /\ new_category = NoCategory
    /\ NoMatchCall
    /\ NoScoreCall

\* a keystroke in the search field, or a category selected
DisplayEntries ==
    /\ pc = "live"
    /\ shown' = display_entries(heap, sysmanual, current_category, query)
    /\ pc' = "live_done"
    /\ UNCHANGED <<call, original_name, original_id, existing_ids, base_name, base_id,
                   i, ret, docVars, dupVars, matchVars, scoreVars, heap, entries_in,
                   query, min_score, result, sysmanual, current_category>>

LiveNext == DisplayEntries

SpecLive == LiveInit /\ [][LiveNext]_vars

-----------------------------------------------------------------------------
(* search_entries_in_category on a list of two entries of the caller's choice *)

RankEntries ==
    [name : ScoreNames, description : {<<>>}, content : ScoreContents,
     examples : {<<>>, <<StrExample(<<"a", "b">>)>>}, notes : ScoreNotes]

RankQueries == {<<"a">>, <<"A", "b">>, <<"a", " ", "b">>}

RankInit ==
    /\ pc = "search"
    /\ heap \in [1..2 -> RankEntries]
    /\ entries_in \in {<<1, 2>>, <<2, 1>>}
    /\ query \in RankQueries
    /\ min_score \in {[raw |-> 0, divisor |-> 1], DefaultMinScore}
    /\ result = <<>>
    /\ sysmanual = NoSysmanual
    /\ shown = <<>>
    /\ current_category = <<>>
    /\ call = 0
    /\ original_name = <<>>
    /\ original_id = <<>>
    /\ existing_ids = {}
    /\ base_name = <<>>
    /\ base_id = <<>>
    /\ i = 0
    /\ ret = NoPair
    /\ current_sysmanual = <<>>
    /\ ops = 0
    /\ NoFramework
    /\ category_data = NoCategory
    /\ existing_cat_ids = {}
    /\ all_entry_ids = {}
    /\ new_category = NoCategory
    /\ NoMatchCall
    /\ NoScoreCall

SpecRank == RankInit /\ [][SearchNext]_vars

-----------------------------------------------------------------------------
(* What the claims about the generator say, stated apart from its code *)

\* t is `open`, one or more digits, `close`
Numbered(t, open, close) ==
    LET d == Len(t) - Len(open) - Len(close)
    IN  /\ d >= 1
        /\ SubSeq(t, 1, Len(open)) = open
        /\ \A k \in (Len(open) + 1)..(Len(open) + d) : t[k] \in DigitChars
        /\ SubSeq(t, Len(open) + d + 1, Len(t)) = close

\* s without blanks at its two ends
Trimmed(s) ==
    LET inked == {k \in 1..Len(s) : s[k] # " "}
    IN  IF inked = {} THEN <<>>
        ELSE SubSeq(s, CHOOSE k \in inked : \A m \in inked : k <= m,
                       CHOOSE k \in inked : \A m \in inked : k >= m)

\* s without its trailing `open`<integer>`close`, if it has one, trimmed
Stripped(s, open, close) ==
    LET cuts == {p \in 0..Len(s) : Numbered(SubSeq(s, p + 1, Len(s)), open, close)}
    IN  IF cuts = {} THEN Trimmed(s)
        ELSE Trimmed(SubSeq(s, 1, CHOOSE p \in cuts : \A q \in cuts : p >= q))

StrippedName(s) == Stripped(s, <<" ", "(">>, <<")">>)
StrippedId(s) == Stripped(s, <<"_">>, <<>>)

Returned == pc = "done"

\* C1: the id returned by get_unique_name_and_id is never a member of
\* existing_ids, also when the original id is absent from existing_ids but
\* its suffix-stripped base is present.
C1_ReturnedIdIsFree == Returned => ret.id \notin existing_ids

C6_SmallestFreeCounter ==
    (Returned /\ original_id \in existing_ids)
        => \E k \in 1..(Cardinality(existing_ids) + 1) :
              /\ ret.name = StrippedName(original_name) \o <<" ", "(">> \o Dec(k) \o <<")">>
              /\ ret.id = StrippedId(original_id) \o <<"_">> \o Dec(k)
              /\ ret.id \notin existing_ids
              /\ \A j \in 1..(k - 1) :
                    (StrippedId(original_id) \o <<"_">> \o Dec(j)) \in existing_ids

\* C6 happens: two candidates were taken, the third is returned
C6_Witness ==
    /\ Returned
    /\ original_id \in existing_ids
    /\ i = 3
    /\ ret.id = StrippedId(original_id) \o <<"_", "3">>

\* C7: the counter loop terminates, and the counter never exceeds
\* |existing_ids| + 1.
C7_LoopTerminatesWithinBound ==
    /\ [](pc = "loop" => i <= Cardinality(existing_ids) + 1)
    /\ [](pc = "loop" => <>(pc = "done"))

\* C7 happens: the loop ran up to the bound |existing_ids| + 1 and returned
C7_Witness ==
    /\ Returned
    /\ i >= 3
    /\ i = Cardinality(existing_ids) + 1


\* C8 as stated: duplicating {id: "e1", name: "ping"} against {"e1", "e2"}
\* yields ("ping (1)", "ping_1"), and duplicating that against
\* {"e1", "e2", "ping_1"} yields ("ping (2)", "ping_2").
C8_PingAsStated ==
    /\ (Returned /\ original_name = PingName /\ original_id = E1
            /\ existing_ids = {E1, E2})
          => ret = [name |-> Ping(1), id |-> Ping_1]
    /\ (Returned /\ original_name = Ping(1) /\ original_id = Ping_1
            /\ existing_ids = {E1, E2, Ping_1})
          => ret = [name |-> Ping(2), id |-> PingName \o <<"_", "2">>]

\* C8 amended: duplicating {id: "e1", name: "ping"} against {"e1", "e2"}
\* yields ("ping (1)", "e1_1"), and duplicating that result against
\* {"e1", "e2", "e1_1"} yields ("ping (2)", "e1_2"): the id counter is
\* appended to the base of the id, not to the name.
C8_PingScenario ==
    /\ (Returned /\ original_name = PingName /\ original_id = E1
            /\ existing_ids = {E1, E2})
          => ret = [name |-> Ping(1), id |-> E1_1]
    /\ (Returned /\ original_name = Ping(1) /\ original_id = E1_1
            /\ existing_ids = {E1, E2, E1_1})
          => ret = [name |-> Ping(2), id |-> <<"e", "1", "_", "2">>]

\* C8 happens: the second duplication of the scenario has returned
C8_Witness ==
    /\ Returned
    /\ call = 2
    /\ original_name = Ping(1)
    /\ original_id = E1_1
    /\ existing_ids = {E1, E2, E1_1}

\* C9: the generator run on its own result (n1, i1) against S \cup {i1}
\* returns an id that is not in S \cup {i1}.
C9_SecondRunIsFree == (Returned /\ call = 2) => ret.id \notin existing_ids

\* C9 happens: the second run returned after its loop skipped a candidate
\* that was taken (the id minted by the first run among them)
C9_Witness ==
    /\ Returned
    /\ call = 2
    /\ i >= 2
    /\ original_id \in existing_ids

-----------------------------------------------------------------------------
(* What the claims about the editor say *)

RECURSIVE AllEntries(_)
AllEntries(categories) ==
    IF categories = <<>> THEN <<>>
    ELSE Head(categories).entries \o AllEntries(Tail(categories))

\* no two positions of q hold items with the same id
DistinctIds(q) == \A a, b \in 1..Len(q) : a # b => q[a].id # q[b].id

\* C2: from a document whose entry ids are pairwise distinct, after any
\* sequence of add_category, add_entry, duplicate_category, duplicate_entry,
\* delete_item, move_item_up and move_item_down, all entry ids of the whole
\* document are still pairwise distinct, across categories.
C2_EntryIdsDistinct == DistinctIds(AllEntries(current_sysmanual))

\* C2 happens: a category was duplicated whose two entries "a" and "a_1"
\* both had to skip taken candidates, and the copies sit in another category
C2_Witness ==
    /\ Len(current_sysmanual) = 2
    /\ Len(current_sysmanual[1].entries) = 2
    /\ Len(current_sysmanual[2].entries) = 2
    /\ current_sysmanual[1].entries[1].id = <<"a">>
    /\ current_sysmanual[1].entries[2].id = <<"a", "_", "1">>
    /\ current_sysmanual[2].entries[1].id = <<"a", "_", "2">>
    /\ current_sysmanual[2].entries[2].id = <<"a", "_", "3">>

\* C3: from a document whose category ids are pairwise distinct, after any
\* sequence of add_category, duplicate_category, delete_item, move_item_up
\* and move_item_down, all category ids are still pairwise distinct.
C3_CategoryIdsDistinct == DistinctIds(current_sysmanual)

\* C3 happens: the category "c_1" was duplicated into "c_2" (its first
\* candidate "c_1" being taken by itself)
C3_Witness ==
    /\ Len(current_sysmanual) = 2
    /\ current_sysmanual[1].id = <<"c", "_", "1">>
    /\ current_sysmanual[2].id = <<"c", "_", "2">>
    /\ current_sysmanual[2].name = <<"C", " ", "(", "2", ")">>

-----------------------------------------------------------------------------
(* What the claims about process_duplicated_category say *)

\* C4: for every category whose entries have pairwise distinct ids and every
\* set all_entry_ids, the entries of the copy returned by
\* process_duplicated_category have pairwise distinct ids, none of them in
\* all_entry_ids.
C4_CopyEntriesFresh ==
    (pc = "dup_done" /\ DistinctIds(category_data.entries))
        => /\ DistinctIds(new_category.entries)
           /\ \A k \in 1..Len(new_category.entries) :
                 new_category.entries[k].id \notin all_entry_ids

-----------------------------------------------------------------------------
(* What the claims about the token matcher say *)

\* C10: for every token and text, best_match_score_for_token returns a
\* value in [0.0, 1.0].
C10_ScoreInUnitInterval == pc = "match_done" => (0 <= score /\ score <= Scale)

\* C10 happens: the score came from the loop over several words of the
\* text, with the fuzzy penalty applied to a containment credit (0.63)
C10_Witness ==
    /\ pc = "match_done"
    /\ Len(findall_words(lower(text), <<>>)) >= 2
    /\ score = (Tenths(7) * 9) \div 10

-----------------------------------------------------------------------------
(* What the claims about the token matcher say *)

MatchReturned == pc = "match_done"

\* the token is one of the words of the text, case-insensitively
IsWholeWordOf(tok, txt) ==
    \E k \in 1..Len(findall_words(lower(txt), <<>>)) :
        findall_words(lower(txt), <<>>)[k] = lower(tok)

\* C11: best_match_score_for_token(tok, t) is 1.0 whenever the non-empty tok
\* equals the entire text t case-insensitively, or equals any whole word of
\* t case-insensitively, also when t holds other words besides that word.
C11_WholeWordScoresOne ==
    (MatchReturned /\ token # <<>>
        /\ (lower(token) = lower(text) \/ IsWholeWordOf(token, text)))
    => score = Scale

-----------------------------------------------------------------------------
(* What the claims about score_entry say *)

ScoreReturned == pc = "score_done"

\* the fraction f is exactly 1.0
IsOne(f) == f.divisor > 0 /\ f.raw = Scale * f.divisor

\* the sum of f over the finite set S
RECURSIVE Sum(_, _)
Sum(f, S) ==
    IF S = {} THEN 0
    ELSE LET x == CHOOSE y \in S : TRUE IN f[x] + Sum(f, S \ {x})

FieldNames == {"name", "description", "content", "examples", "notes"}

\* the weights the claim names, in tenths
StatedWeights ==
    [f \in FieldNames |->
        CASE f = "name" -> 30 [] f = "description" -> 18 [] f = "content" -> 15
          [] f = "examples" -> 12 [] f = "notes" -> 10]

StatedWeightSum == Sum(StatedWeights, FieldNames)

\* the text of field f that a token is matched against
Surface(e, f) ==
    CASE f = "name" -> e.name [] f = "description" -> e.description
      [] f = "content" -> content_val(e) [] f = "examples" -> examples_val(e)
      [] f = "notes" -> e.notes

\* the sum over the tokens and over the five fields of matchScore * weight
WeightedMatchSum(e, toks) ==
    Sum([p \in (1..Len(toks)) \X FieldNames |->
            best_match_score_for_token(toks[p[1]], Surface(e, p[2])) * StatedWeights[p[2]]],
        (1..Len(toks)) \X FieldNames)

\* C12: for every entry, score_entry(entry, []) returns exactly 1.0, whatever
\* the entry's fields contain.
C12_EmptyTokensScoreOne == (ScoreReturned /\ tokens = <<>>) => IsOne(normalized)

C12_Witness ==
    /\ ScoreReturned
    /\ tokens = <<>>
    /\ entry_in.name # <<>>
    /\ entry_in.examples # <<>>
    /\ IsOne(normalized)

\* C13 as stated: for a non-empty token list score_entry returns
\* raw_score / (tokenCount * 9.0), raw_score being the sum over tokens and
\* over the five fields of matchScore * weight.
C13_DividedByNine ==
    (ScoreReturned /\ tokens # <<>>)
    => /\ normalized.divisor > 0
       /\ normalized.raw * (Len(tokens) * 90)
            = WeightedMatchSum(entry_in, tokens) * normalized.divisor

\* C13 amended: for a non-empty token list score_entry returns
\* raw_score / (tokenCount * 8.5), raw_score being the sum over tokens and
\* over the five fields of matchScore * weight with weights name=3.0,
\* description=1.8, content=1.5, examples=1.2, notes=1.0; the divisor
\* constant 8.5 is the sum of these weights.
C13_DividedByWeightSum ==
    (ScoreReturned /\ tokens # <<>>)
    => /\ StatedWeightSum = 85
       /\ normalized.divisor > 0
       /\ normalized.raw * (Len(tokens) * StatedWeightSum)
            = WeightedMatchSum(entry_in, tokens) * normalized.divisor

C13_Witness ==
    /\ ScoreReturned
    /\ Len(tokens) = 2
    /\ tokens[1] # tokens[2]
    /\ \A f \in FieldNames : Surface(entry_in, f) # <<>>
    /\ normalized.raw > 0
    /\ normalized.raw < Scale * normalized.divisor

\* C14: for every entry and every token list score_entry returns a value in
\* [0.0, 1.0]; no combination of strong matches in several fields pushes the
\* normalized score above 1.0.
C14_EntryScoreInUnitInterval ==
    ScoreReturned
    => /\ normalized.divisor > 0
       /\ 0 <= normalized.raw
       /\ normalized.raw <= Scale * normalized.divisor

\* two tokens that each equal the name, the notes and the only example
C14_Witness ==
    /\ ScoreReturned
    /\ Len(tokens) = 2
    /\ \A k \in 1..2 :
          /\ best_match_score_for_token(tokens[k], entry_in.name) = Scale
          /\ best_match_score_for_token(tokens[k], examples_val(entry_in)) = Scale
          /\ best_match_score_for_token(tokens[k], entry_in.notes) = Scale
    /\ normalized.raw <= Scale * normalized.divisor

\* the entry e with its only example, a bare str, as the dict {command: c}
DictTwin(e) == [e EXCEPT !.examples = <<DictExample(e.examples[1].command, <<>>)>>]

\* C15: for every command string c and every token list, score_entry gives
\* the same score to an entry whose only example is the bare string c and to
\* the otherwise identical entry whose only example is the dict {command: c}.
C15_ExampleFormsScoreAlike ==
    (ScoreReturned /\ Len(entry_in.examples) = 1 /\ ~entry_in.examples[1].is_dict)
    => normalized = score_entry(DictTwin(entry_in), tokens)

-----------------------------------------------------------------------------
(* What the claims about search_entries_in_category say *)

SearchReturned == pc = "search_done"

\* the query has no word token: absent, empty, blank or punctuation only
NoWordToken(q) == q = None \/ \A k \in 1..Len(q) : ~IsWordChar(q[k])

\* the tokens of a query that has some
QueryTokens(q) == tokenize(strip(q))

\* the score_entry value of the object behind r for the query q
ScoreOf(r, q) == score_entry(heap[r], QueryTokens(q))

\* how many times r occurs in the list s
Count(s, r) == Cardinality({k \in 1..Len(s) : s[k] = r})

\* C16: when the query has no word token (absent, empty, whitespace-only or
\* punctuation-only), search_entries_in_category returns all input entries
\* in their original order, for every min_score, with no filtering by score.
C16_NoTokenPassThrough == (SearchReturned /\ NoWordToken(query)) => result = entries_in

\* a punctuation-only query with a threshold that no score reaches
C16_Witness ==
    /\ SearchReturned
    /\ query = <<"-", " ">>
    /\ min_score = [raw |-> 2 * Scale, divisor |-> 1]
    /\ Len(entries_in) >= 2
    /\ entries_in[1] > entries_in[2]
    /\ result = entries_in

\* C17: for a query with at least one token the result holds exactly the
\* input entries whose score_entry value is >= min_score (inclusive), each
\* as many times as it occurs in the input, and no other entry.
C17_ExactlyTheEntriesAtOrAboveThreshold ==
    (SearchReturned /\ ~NoWordToken(query))
    => /\ \A k \in 1..Len(result) : result[k] \in DOMAIN heap
       /\ \A r \in DOMAIN heap :
             Count(result, r) =
                IF ScoreGE(ScoreOf(r, query), min_score) THEN Count(entries_in, r) ELSE 0

\* an entry whose score equals the threshold is kept, twice, another is dropped
C17_Witness ==
    /\ SearchReturned
    /\ ~NoWordToken(query)
    /\ min_score.raw > 0
    /\ \E r \in DOMAIN heap :
          /\ ScoreOf(r, query) = min_score
          /\ Count(entries_in, r) = 2
          /\ Count(result, r) = 2
    /\ \E r \in DOMAIN heap : Count(entries_in, r) = 1 /\ Count(result, r) = 0

\* C18: for a query with at least one token the result is ordered by
\* non-increasing score: score(result[i]) >= score(result[j]) for i < j.
C18_ResultDescending ==
    (SearchReturned /\ ~NoWordToken(query))
    => \A k \in 1..Len(result) : \A j \in 1..Len(result) :
          k < j => ScoreGE(ScoreOf(result[k], query), ScoreOf(result[j], query))

\* three entries given in strictly increasing score come back reversed
C18_Witness ==
    /\ SearchReturned
    /\ ~NoWordToken(query)
    /\ Len(entries_in) = 3
    /\ Len(result) = 3
    /\ \A k \in 1..2 : ~ScoreGE(ScoreOf(entries_in[k], query), ScoreOf(entries_in[k + 1], query))
    /\ result = <<entries_in[3], entries_in[2], entries_in[1]>>

\* C19: search_entries_in_category leaves the input list and every input
\* entry unchanged, and every element of its result is one of the input
\* entries itself (a reference, not a copy), on the pass-through path and on
\* the scored path.
C19_InputsUntouchedResultShared ==
    [][(pc = "search" /\ pc' = "search_done")
        => /\ heap' = heap
           /\ entries_in' = entries_in
           /\ \A k \in 1..Len(result') : \E j \in 1..Len(entries_in) : result'[k] = entries_in[j]]_vars

\* a scored call that returned input entries, in another order than given
C19_Witness ==
    /\ SearchReturned
    /\ Len(result) >= 2
    /\ result # entries_in
    /\ \A k \in 1..Len(result) : \E j \in 1..Len(entries_in) : result[k] = entries_in[j]

-----------------------------------------------------------------------------
(* What the claim about the advanced search says *)

AdvReturned == pc = "adv_done"

\* the result of search_entries_in_category on the entries of category c alone
GroupResult(c) ==
    search_entries_in_category(heap, sysmanual.categories[c].entries, query,
                               DefaultMinScore).result

\* the categories that have a group: none for a blank query, else those with matches
Reported ==
    IF strip(query) = <<>> THEN {}
    ELSE {c \in 1..Len(sysmanual.categories) : GroupResult(c) # <<>>}

\* the groups of the reported categories from c on, in document order
RECURSIVE GroupsFrom(_)
GroupsFrom(c) ==
    IF c > Len(sysmanual.categories) THEN <<>>
    ELSE (IF c \in Reported
          THEN <<header_of(sysmanual.categories[c].name)>> \o entry_widgets(GroupResult(c))
          ELSE <<>>)
            \o GroupsFrom(c + 1)

\* C20: the advanced search reports its results grouped per category: the
\* groups appear in document order, each group is exactly the result of
\* search_entries_in_category on that category's entries alone, and there is
\* no merged ranking, so an entry of a later category never precedes an
\* entry of an earlier one, whatever their scores.
C20_GroupedPerCategory == AdvReturned => shown = GroupsFrom(1)

\* an entry of an earlier group is shown before a higher-scoring entry of a later group
C20_Witness ==
    /\ AdvReturned
    /\ ~NoWordToken(query)
    /\ \E p \in 1..Len(shown) : \E h \in 1..Len(shown) : \E q \in 1..Len(shown) :
          /\ p < h /\ h < q
          /\ shown[p].kind = "entry"
          /\ shown[h].kind = "header"
          /\ shown[q].kind = "entry"
          /\ ~ScoreGE(ScoreOf(shown[p].ref, query), ScoreOf(shown[q].ref, query))

-----------------------------------------------------------------------------
(* What the claim about the live filter says *)

LiveReturned == pc = "live_done"

\* the entries of the selected category, if the document has it
SelectedEntries ==
    IF sysmanual.loaded /\ category_with_id(sysmanual.categories, current_category) # <<>>
    THEN category_with_id(sysmanual.categories, current_category)[1].entries
    ELSE <<>>

\* the thresholds from 0.12 to 0.15
LowThresholds == {[raw |-> Hundredths(n), divisor |-> 1] : n \in 12..15}

\* C21: with a search term that holds a word display_entries shows the entries of
\* the current category selected and ranked as search_entries_in_category
\* does with a low threshold of about 0.12 to 0.15: what it shows is the
\* scored, descending-ordered search result for that category.
C21_LiveFilterIsRankedSearch ==
    (LiveReturned /\ ~NoWordToken(query))
    => \E ms \in LowThresholds :
          shown = entry_widgets(
                    search_entries_in_category(heap, SelectedEntries, query, ms).result)

-----------------------------------------------------------------------------
(* What the claim about the monotonicity of the ranking says *)

\* the name of the object behind r is the query, case-insensitively
ExactName(r, q) == lower(heap[r].name) = lower(strip(q))

\* no field of the object behind r is the query, case-insensitively
NoFieldEqual(r, q) == \A f \in FieldNames : lower(Surface(heap[r], f)) # lower(strip(q))

\* the place of r in the list s, or beyond it when r is not in s
Place(s, r) ==
    IF Count(s, r) = 0 THEN Len(s) + 1
    ELSE CHOOSE k \in 1..Len(s) : s[k] = r /\ \A j \in 1..(k - 1) : s[j] # r

\* C22: for a query q an entry whose name equals q case-insensitively ranks
\* at or above every entry of the same list that has only partial or fuzzy
\* matches for q and no field equal to q, whatever the other fields of the
\* two entries contain: it scores at least as much, and a strictly better
\* score of the other entry never puts the other entry first.
C22_ExactNameRanksFirst ==
    SearchReturned
    => \A x \in DOMAIN heap : \A y \in DOMAIN heap :
          (ExactName(x, query) /\ NoFieldEqual(y, query))
          => /\ ScoreGE(ScoreOf(x, query), ScoreOf(y, query))
             /\ Count(result, y) > 0 => Place(result, x) <= Len(result)

-----------------------------------------------------------------------------
(* What the claim about the frame of duplicate_entry says *)

\* entry b is entry a but for its name and its id
SameButNameAndId(a, b) ==
    /\ DOMAIN b = DOMAIN a
    /\ \A f \in DOMAIN a \ {"name", "id"} : b[f] = a[f]

\* the document after is the document before with one entry more, placed
\* right behind entry pos of category c and equal to it but for name and id
CopyPlacedBehind(before, after, c, pos) ==
    /\ Len(after) = Len(before)
    /\ \A k \in 1..Len(before) : k # c => after[k] = before[k]
    /\ after[c].id = before[c].id
    /\ after[c].name = before[c].name
    /\ Len(after[c].entries) = Len(before[c].entries) + 1
    /\ \A k \in 1..pos : after[c].entries[k] = before[c].entries[k]
    /\ \A k \in (pos + 1)..Len(before[c].entries) :
          after[c].entries[k + 1] = before[c].entries[k]
    /\ SameButNameAndId(before[c].entries[pos], after[c].entries[pos + 1])

\* C23: after duplicate_entry(c, i) every pre-existing entry, the original
\* included, is unchanged and keeps its relative order, exactly one new
\* entry exists, it sits right behind the original in category c, and it
\* equals the original in every field except name and id.
C23_DuplicateEntryFrame ==
    [][duplicate_entry
        => \E c \in CatIndexes : \E k \in EntryIndexes(c) :
              CopyPlacedBehind(current_sysmanual, current_sysmanual', c, k)]_vars

\* an entry "A" directly followed by its copy "A (1)", with an entry behind
C23_Witness ==
    \E c \in CatIndexes : \E k \in EntryIndexes(c) :
        /\ k + 2 <= Len(current_sysmanual[c].entries)
        /\ current_sysmanual[c].entries[k].name = <<"A">>
        /\ current_sysmanual[c].entries[k + 1].name = <<"A", " ", "(", "1", ")">>
        /\ SameButNameAndId(current_sysmanual[c].entries[k],
                            current_sysmanual[c].entries[k + 1])
        /\ current_sysmanual[c].entries[k + 2].name = <<"A">>

-----------------------------------------------------------------------------
(* What the claim about repeated duplication says *)

NameWithCounter(b, m) == b \o <<" ", "(">> \o Dec(m) \o <<")">>
IdWithCounter(b, m) == b \o <<"_">> \o Dec(m)

\* s ends in a counter: its base is not just s trimmed
HasCounter(s, base) == base # Trimmed(s)

-----------------------------------------------------------------------------
(* Optional fields of an entry                                             *)

Optional == {"name", "description", "content", "examples", "notes"}

\* the field f of e is present and holds None
IsNull(e, f) == f \in {"name", "description", "notes"} /\ f \in DOMAIN e /\ e[f] = Null

\* the value an optional field has when it is present but empty
EmptyValue(f) == <<>>

\* the entry with every optional field present: a field that is absent or
\* None is empty, the others are as they are
Emptied(e) ==
    [f \in Optional |-> IF f \in DOMAIN e /\ ~IsNull(e, f) THEN e[f] ELSE EmptyValue(f)]

\* the fields of e that are absent or None
Missing(e) == {f \in Optional : f \notin DOMAIN e \/ IsNull(e, f)}

\* what the field f adds to the raw score of e for one token
Contribution(e, f, tok) ==
    best_match_score_for_token(tok,
        CASE f = "name" -> name_text(e)
          [] f = "description" -> desc_text(e)
          [] f = "content" -> content_val(e)
          [] f = "examples" -> examples_val(e)
          [] f = "notes" -> notes_text(e)) * weights[f]

\* C25: score_entry gives an entry that lacks content, examples or notes, or
\* holds None for name, description or notes, the score of the same entry
\* with these fields present and empty, and each such field adds 0 to the
\* raw score.
C25_AbsentFieldsScoreAsEmpty ==
    ScoreReturned
    => /\ normalized = score_entry(Emptied(entry_in), tokens)
       /\ \A f \in Missing(entry_in) : \A k \in 1..Len(tokens) :
             Contribution(entry_in, f, tokens[k]) = 0

\* a score was returned for an entry without content whose name is None, for
\* a query with the token "none"
C25_Witness ==
    /\ ScoreReturned
    /\ "content" \notin DOMAIN entry_in
    /\ entry_in.name = Null
    /\ \E k \in 1..Len(tokens) : tokens[k] = NoneStr
    /\ normalized.raw > 0

-----------------------------------------------------------------------------
(* Entries of equal score                                                  *)

EqualScore(a, b) == a.raw * b.divisor = b.raw * a.divisor

\* the entries of the list s whose score for the query q is sc, in the order of s
RECURSIVE WithScore(_, _, _)
WithScore(s, q, sc) ==
    IF s = <<>> THEN <<>>
    ELSE (IF EqualScore(ScoreOf(Head(s), q), sc) THEN <<Head(s)>> ELSE <<>>)
            \o WithScore(Tail(s), q, sc)

\* C26: entries with equal score keep their relative input order in the
\* result of search_entries_in_category: for every score of the result, the
\* returned entries with that score are the input entries with that score,
\* in input order.
C26_TiesKeepInputOrder ==
    (SearchReturned /\ ~NoWordToken(query))
    => \A k \in 1..Len(result) :
          WithScore(result, query, ScoreOf(result[k], query))
             = WithScore(entries_in, query, ScoreOf(result[k], query))

\* two different entries of equal score were returned behind an entry that
\* came after one of them in the input
C26_Witness ==
    /\ SearchReturned
    /\ ~NoWordToken(query)
    /\ result # entries_in
    /\ \E k \in 1..Len(result) : \E j \in (k + 1)..Len(result) :
          /\ result[k] # result[j]
          /\ EqualScore(ScoreOf(result[k], query), ScoreOf(result[j], query))

-----------------------------------------------------------------------------
(* The per-word candidates of the token matcher                            *)

\* the words of the lowercased text
WordsOf(txt) == findall_words(lower(txt), <<>>)

\* tok is inside w or w is inside tok
Contained(tok, w) == Contains(w, tok) \/ Contains(tok, w)

\* the candidate of the word w for the token tok: 0.7 for a containment, the
\* similarity ratio otherwise
Candidate(tok, w) == IF Contained(tok, w) THEN Tenths(7) ELSE ratio(tok, w)

\* the largest candidate over the words, 0 without words
MaxCandidate(tok, words) ==
    IF words = <<>> THEN 0
    ELSE LET cands == {Candidate(tok, words[k]) : k \in 1..Len(words)}
         IN  CHOOSE c \in cands : \A d \in cands : c >= d

\* neither the whole-text equality nor the whole-text substring rule applies
WordRulesApply(tok, txt) ==
    /\ lower(tok) # lower(txt)
    /\ ~Contains(lower(txt), lower(tok))

\* C27: when neither the whole-text equality nor the whole-text substring
\* rule applies, best_match_score_for_token returns 0.9 times the largest
\* per-word candidate (0.7 for a containment, the similarity ratio for any
\* other word), so the result is at most 0.9, and it is 0.63 when a word is
\* contained and no other word has a ratio above 0.7.
C27_NineTenthsOfBestCandidate ==
    (MatchReturned /\ WordRulesApply(token, text))
    => LET tok == lower(token)
           words == WordsOf(text)
       IN  /\ score * 10 = MaxCandidate(tok, words) * 9
           /\ score <= Tenths(9)
           /\ ((\E k \in 1..Len(words) : Contained(tok, words[k]))
                 /\ (\A k \in 1..Len(words) : Candidate(tok, words[k]) <= Tenths(7)))
              => score = Hundredths(63)

\* the token holds one word of the text and is only similar to another, and
\* the containment decided the score
C27_Witness ==
    /\ MatchReturned
    /\ WordRulesApply(token, text)
    /\ \E k \in 1..Len(WordsOf(text)) : Contained(lower(token), WordsOf(text)[k])
    /\ \E k \in 1..Len(WordsOf(text)) :
          /\ ~Contained(lower(token), WordsOf(text)[k])
          /\ ratio(lower(token), WordsOf(text)[k]) > 0
    /\ score = Hundredths(63)

-----------------------------------------------------------------------------
(* What the claims about the single-file editor say *)

\* the last item of a non-empty list
Last(q) == q[Len(q)]

\* the item has the given id and name
Named(item, id, name) == item.id = id /\ item.name = name

\* C28: in the single-file program add_category gives the new category the
\* bare id "new-category" and the name "New Category" when no category has
\* the id "new-category", and add_entry gives the new entry the bare id
\* "new-entry" and the name "New Entry" when no entry of the document has the
\* id "new-entry".
C28_FirstAddIsBare ==
    [][/\ (single_file_add_category
             /\ NewCategoryId \notin {current_sysmanual[c].id : c \in CatIndexes})
          => Named(Last(current_sysmanual'), NewCategoryId, NewCategoryName)
       /\ (single_file_add_entry
             /\ NewEntryId \notin get_all_entry_ids(current_sysmanual))
          => \E c \in CatIndexes :
                /\ Len(current_sysmanual'[c].entries) = Len(current_sysmanual[c].entries) + 1
                /\ Named(Last(current_sysmanual'[c].entries), NewEntryId, NewEntryName)]_vars

\* C29: whenever the original id is in existing_ids, the generator of
\* sysmanual_core.py and the generator of SysManual.py return the same
\* (name, id) pair for the same name, id and id set.
C29_VariantsAgreeOnTakenId ==
    (Returned /\ original_id \in existing_ids)
    => ret = _get_unique_name_and_id(original_name, original_id, existing_ids)

\* a call with a taken original id whose suffix was stripped and whose first
\* candidate was taken as well
C29_Witness ==
    /\ Returned
    /\ original_id \in existing_ids
    /\ match_id(original_id)
    /\ i >= 2
    /\ ret = _get_unique_name_and_id(original_name, original_id, existing_ids)

-----------------------------------------------------------------------------
(* What the claim about the editor's copy says *)

\* the documents of the framework's map, each with its list of categories
FrameworkDocuments == [id \in DOMAIN sysmanuals |-> document(sysmanuals[id])]

\* C30: the editor works on a private deep copy: no editor operation (field
\* edit, add, duplicate, delete, move) and no load_sysmanual changes a
\* document held in the framework's sysmanuals map; the map changes only in
\* a step of save_sysmanual, and then the document under the saved id is the
\* editor's document as written to the file.
C30_FrameworkChangesOnlyOnSave ==
    [][FrameworkDocuments' # FrameworkDocuments
          => /\ save_sysmanual
             /\ \A id \in DOMAIN sysmanuals' :
                   \/ id \in DOMAIN sysmanuals
                        /\ FrameworkDocuments'[id] = FrameworkDocuments[id]
                   \/ FrameworkDocuments'[id] = document(editing)]_vars

\* the editor has changed the copy it loaded, and the framework's document
\* of the same id is as it was loaded
C30_Witness ==
    /\ editing # 0
    /\ ops >= 2
    /\ objects[editing].id \in DOMAIN sysmanuals
    /\ document(editing) # document(sysmanuals[objects[editing].id])
    /\ sysmanuals[objects[editing].id] <= 2

=============================================================================
